---- MODULE Spec2Model ----
(***************************************************************************)
(* Model of the configuration-language toolchain of src/vfs_root/DZ.py:    *)
(* the Lexer (source cursor + tokenizer), the recursive-descent Parser     *)
(* with its constant table and eager prefix-expression evaluation, and     *)
(* convert_to_json, which renders the result or the error.                 *)
(*                                                                         *)
(* Text is a TLA+ string; positions are 0-based as in the source, so the   *)
(* character at Python index p is SubSeq(text, p+1, p+1).                   *)
(*                                                                         *)
(* Values are tagged records [t, v]:                                       *)
(*   int    v = the integer                                                *)
(*   float  v = <<m, s>>, the number m / 10^s, normalised (s = 0 or        *)
(*          m not divisible by 10).  The float lexemes of the inputs are   *)
(*          exactly representable in binary, so no IEEE rounding occurs.   *)
(*   str    v = the string                                                 *)
(*   arr    v = the sequence of element values                             *)
(*   none   Python's None (value of the EOF token)                         *)
(***************************************************************************)
EXTENDS Integers, Sequences, FiniteSets, TLC

VARIABLES text, lexer, current_token, constants, config, pc, err, output,
          process, vfs, reply

vars == <<text, lexer, current_token, constants, config, pc, err, output,
          process, vfs, reply>>

----------------------------------------------------------------------------
(* Values *)

IntV(n) == [t |-> "int", v |-> n]
StrV(s) == [t |-> "str", v |-> s]
ArrV(a) == [t |-> "arr", v |-> a]
None == [t |-> "none", v |-> ""]

RECURSIVE Pow10(_)
Pow10(n) == IF n <= 0 THEN 1 ELSE 10 * Pow10(n - 1)

RECURSIVE Norm(_)
Norm(f) == IF f[2] > 0 /\ f[1] % 10 = 0
           THEN Norm(<<f[1] \div 10, f[2] - 1>>)
           ELSE f

FloatV(m, s) == [t |-> "float", v |-> Norm(<<m, s>>)]

IsNum(x) == x.t \in {"int", "float"}

\* the operand as a decimal fraction <<m, s>> (int -> float promotion)
AsFloat(x) == IF x.t = "int" THEN <<x.v, 0>> ELSE x.v

Max(a, b) == IF a >= b THEN a ELSE b

\* m as an integer number of units 10^-s
Scaled(f, s) == f[1] * Pow10(s - f[2])

----------------------------------------------------------------------------
(* Token types, class TokenType *)

EOF == "EOF"
NUMBER == "NUMBER"
STRING_T == "STRING"
IDENTIFIER == "IDENTIFIER"
LBRACKET == "LBRACKET"
RBRACKET == "RBRACKET"
SEMICOLON == "SEMICOLON"
VAR == "VAR"
AT == "AT"
LPAREN == "LPAREN"
RPAREN == "RPAREN"
PLUS == "PLUS"
MINUS == "MINUS"
MULTIPLY == "MULTIPLY"
ORD == "ORD"

Token(type, value) == [type |-> type, value |-> value]

----------------------------------------------------------------------------
(* Characters *)

Digits == {"0", "1", "2", "3", "4", "5", "6", "7", "8", "9"}

Lower == {"a", "b", "c", "d", "e", "f", "g", "h", "i", "j", "k", "l", "m",
          "n", "o", "p", "q", "r", "s", "t", "u", "v", "w", "x", "y", "z"}

Upper == {"A", "B", "C", "D", "E", "F", "G", "H", "I", "J", "K", "L", "M",
          "N", "O", "P", "Q", "R", "S", "T", "U", "V", "W", "X", "Y", "Z"}

\* letters outside ASCII for which str.isalpha is true, among the
\* characters a TLA+ string can hold
OtherLetters == {"é", "µ"}

\* str.isdigit / str.isalpha / str.isalnum on one character of the inputs
isdigit(ch) == ch \in Digits
isalpha(ch) == ch \in Lower \cup Upper \cup OtherLetters
isalnum(ch) == isalpha(ch) \/ isdigit(ch)

DigitVal(ch) ==
  CASE ch = "0" -> 0 [] ch = "1" -> 1 [] ch = "2" -> 2 [] ch = "3" -> 3
    [] ch = "4" -> 4 [] ch = "5" -> 5 [] ch = "6" -> 6 [] ch = "7" -> 7
    [] ch = "8" -> 8 [] ch = "9" -> 9

\* the builtin ord() on the characters that occur in string literals of the
\* inputs (ASCII code points)
CodePoint(ch) ==
  CASE ch = "A" -> 65 [] ch = "B" -> 66 [] ch = "a" -> 97 [] ch = "b" -> 98
    [] ch = "c" -> 99 [] ch = "x" -> 120 [] ch = "0" -> 48 [] ch = "1" -> 49
    [] ch = " " -> 32 [] ch = "\\" -> 92 [] ch = "\"" -> 34 [] ch = ";" -> 59
    [] ch = "s" -> 115

----------------------------------------------------------------------------
(* Lexer: source cursor.  A lexer state is [pos, line, col]. *)

LexerInit == [pos |-> 0, line |-> 1, col |-> 1]

\* text[p], and "" past the end (where a regular expression sees the end)
CharAt(p) == IF p >= 0 /\ p < Len(text) THEN SubSeq(text, p + 1, p + 1) ELSE ""

peek(L) == IF L.pos < Len(text) THEN CharAt(L.pos) ELSE ""

advance(L) ==
  IF peek(L) = "\n"
  THEN [pos |-> L.pos + 1, line |-> L.line + 1, col |-> 1]
  ELSE [pos |-> L.pos + 1, line |-> L.line, col |-> L.col + 1]

\* Lexer.error / Parser.error: a SyntaxError carrying the lexer's line and
\* column at the moment it is raised.  kind names the message:
\*   UnterminatedString   "Незакрытая строка"
\*   InvalidNumber        "Некорректное число: ..."
\*   UnknownCharacter     "Неизвестный символ: ..."
\*   UnexpectedToken      "Ожидался X, получен Y"
\*   ExpectedValue        "Ожидалось значение, получен Y"
\*   InvalidArgument      "Функция ord() ожидает непустую строку"
\*   UnknownConstant      "Неизвестная константа: ..."
\*   UnexpectedExprToken  "Неожиданный токен в выражении: Y"
\* arg is what the message ends with (X for UnexpectedToken) and got is Y
\* of "Ожидался X, получен Y".
error(L, kind, arg) ==
  [ok |-> FALSE, lexer |-> L,
   err |-> [exc |-> "SyntaxError", kind |-> kind, located |-> TRUE,
            line |-> L.line, col |-> L.col, arg |-> arg, got |-> ""]]

\* a TypeError raised by a Python operator: arg is its message, which has
\* no position
TypeError(L, arg) ==
  [ok |-> FALSE, lexer |-> L,
   err |-> [exc |-> "TypeError", kind |-> "TypeMismatch", located |-> FALSE,
            line |-> 0, col |-> 0, arg |-> arg, got |-> ""]]

RECURSIVE skip_whitespace(_)
skip_whitespace(L) ==
  IF L.pos < Len(text) /\ peek(L) \in {" ", "\t", "\r", "\n"}
  THEN skip_whitespace(advance(L))
  ELSE L

\* read_string_loop with the bug of ending the string at the end of text
RECURSIVE read_string_loop_NoError(_, _)
read_string_loop_NoError(L, start) ==
  IF L.pos < Len(text)
  THEN LET ch == peek(L) IN
       IF ch = "\""
       THEN [ok |-> TRUE, value |-> SubSeq(text, start + 1, L.pos),
             lexer |-> advance(L)]
       ELSE IF ch = "\\"
            THEN read_string_loop_NoError(advance(advance(L)), start)
            ELSE read_string_loop_NoError(advance(L), start)
  ELSE [ok |-> TRUE, value |-> SubSeq(text, start + 1, Len(text)),
        lexer |-> L]

\* read_string_loop with the bug of not skipping the character after a
\* backslash
RECURSIVE read_string_loop_NoSkip(_, _)
read_string_loop_NoSkip(L, start) ==
  IF L.pos < Len(text)
  THEN IF peek(L) = "\""
       THEN [ok |-> TRUE, value |-> SubSeq(text, start + 1, L.pos),
             lexer |-> advance(L)]
       ELSE read_string_loop_NoSkip(advance(L), start)
  ELSE error(L, "UnterminatedString", "")

RECURSIVE read_string_loop(_, _)
read_string_loop(L, start) ==
  IF L.pos < Len(text)
  THEN LET ch == peek(L) IN
       IF ch = "\""
       THEN [ok |-> TRUE, value |-> SubSeq(text, start + 1, L.pos),
             lexer |-> advance(L)]
       ELSE IF ch = "\\"
            THEN read_string_loop(advance(advance(L)), start)
            ELSE read_string_loop(advance(L), start)
  ELSE error(L, "UnterminatedString", "")

string_body(L) == read_string_loop(L, L.pos)

read_string(L) == string_body(advance(L))

RECURSIVE read_identifier_loop(_)
read_identifier_loop(L) ==
  IF L.pos < Len(text) /\ (isalnum(peek(L)) \/ peek(L) = "_")
  THEN read_identifier_loop(advance(L))
  ELSE L

identifier_text(L, L1) ==
  [value |-> SubSeq(text, L.pos + 1, L1.pos), lexer |-> L1]

read_identifier(L) == identifier_text(L, read_identifier_loop(L))

----------------------------------------------------------------------------
(* Lexer.NUMBER_REGEX = -?(\d+|\d+\.\d*|\.\d+)([eE][-+]?\d+)?              *)
(* matched at position p of text.  Each piece gives the position where its *)
(* match ends, or -1 when it does not match.  The alternatives of the      *)
(* group are tried in order; what follows the group can match the empty    *)
(* string, so the first alternative that matches is the one kept.          *)

RECURSIVE DigitsEnd(_)
DigitsEnd(p) == IF isdigit(CharAt(p)) THEN DigitsEnd(p + 1) ELSE p

Alt1(p) == IF DigitsEnd(p) > p THEN DigitsEnd(p) ELSE -1

Alt2(p) == IF DigitsEnd(p) > p /\ CharAt(DigitsEnd(p)) = "."
           THEN DigitsEnd(DigitsEnd(p) + 1)
           ELSE -1

Alt3(p) == IF CharAt(p) = "." /\ DigitsEnd(p + 1) > p + 1
           THEN DigitsEnd(p + 1)
           ELSE -1

\* a | b of two matches: the first when it matches, else the second
FirstMatch(a, b) == IF a >= 0 THEN a ELSE b

NumberGroup(p) == FirstMatch(Alt1(p), FirstMatch(Alt2(p), Alt3(p)))

\* the optional exponent after a group that ended at p
ExponentGroup(p) ==
  IF p >= 0 /\ CharAt(p) \in {"e", "E"}
  THEN FirstMatch(Alt1(IF CharAt(p + 1) \in {"-", "+"} THEN p + 2 ELSE p + 1),
                  p)
  ELSE p

\* end of the match of NUMBER_REGEX at p, or -1
NUMBER_REGEX(p) ==
  ExponentGroup(FirstMatch(IF CharAt(p) = "-" THEN NumberGroup(p + 1) ELSE -1,
                           NumberGroup(p)))

----------------------------------------------------------------------------
(* The builtins int() and float() on the text of a number token *)

RECURSIVE ParseDigits(_)
ParseDigits(s) ==
  IF s = "" THEN 0
  ELSE ParseDigits(SubSeq(s, 1, Len(s) - 1)) * 10
         + DigitVal(SubSeq(s, Len(s), Len(s)))

ParseSigned(s) ==
  IF s # "" /\ SubSeq(s, 1, 1) \in {"-", "+"}
  THEN (IF SubSeq(s, 1, 1) = "-" THEN -1 ELSE 1)
         * ParseDigits(SubSeq(s, 2, Len(s)))
  ELSE ParseDigits(s)

\* first index of s holding a character of set, or 0
RECURSIVE IndexOf(_, _, _)
IndexOf(s, set, i) ==
  IF i > Len(s) THEN 0
  ELSE IF SubSeq(s, i, i) \in set THEN i
  ELSE IndexOf(s, set, i + 1)

Contains(s, set) == IndexOf(s, set, 1) > 0

int(s) == IntV(ParseSigned(s))

IsNegative(s) == s # "" /\ SubSeq(s, 1, 1) = "-"

\* the float written as digits whole, digits frac after the point, and
\* the power of ten exp
Decimal(neg, whole, frac, exp) ==
  LET mag == ParseDigits(whole \o frac)
      m   == IF neg THEN -mag ELSE mag
      s10 == Len(frac) - exp
  IN  IF s10 >= 0 THEN FloatV(m, s10) ELSE FloatV(m * Pow10(-s10), 0)

Unsigned(s) == IF IsNegative(s) THEN SubSeq(s, 2, Len(s)) ELSE s

\* mant has its decimal point at index di (0: none)
Mantissa(mant, di, exp) ==
  IF di > 0
  THEN Decimal(IsNegative(mant), Unsigned(SubSeq(mant, 1, di - 1)),
               SubSeq(mant, di + 1, Len(mant)), exp)
  ELSE Decimal(IsNegative(mant), Unsigned(mant), "", exp)

\* s has its exponent mark at index ei (0: none)
Exponent(s, ei) ==
  IF ei > 0
  THEN Mantissa(SubSeq(s, 1, ei - 1),
                IndexOf(SubSeq(s, 1, ei - 1), {"."}, 1),
                ParseSigned(SubSeq(s, ei + 1, Len(s))))
  ELSE Mantissa(s, IndexOf(s, {"."}, 1), 0)

float(s) == Exponent(s, IndexOf(s, {"e", "E"}, 1))

----------------------------------------------------------------------------
(* Lexer.next_token *)

Symbols == {"@", "[", "]", ";", "(", ")", "+", "-", "*"}

SymbolType(ch) ==
  CASE ch = "@" -> AT [] ch = "[" -> LBRACKET [] ch = "]" -> RBRACKET
    [] ch = ";" -> SEMICOLON [] ch = "(" -> LPAREN [] ch = ")" -> RPAREN
    [] ch = "+" -> PLUS [] ch = "-" -> MINUS [] ch = "*" -> MULTIPLY

\* NumberStart with the bug of taking every '-' as the start of a number
NumberStart_AnyMinus(L) == isdigit(peek(L)) \/ peek(L) = "-"

\* the number branch: taken when the character is a digit, or a '-'
\* directly followed by a digit, and the regular expression matches
NumberStart(L) ==
  LET ch == peek(L)
  IN  isdigit(ch)
        \/ (ch = "-" /\ L.pos + 1 < Len(text) /\ isdigit(CharAt(L.pos + 1)))

\* the value of the matched text
NumberValue(num_str) ==
  IF Contains(num_str, {".", "e", "E"}) THEN float(num_str) ELSE int(num_str)

\* the number branch once the regular expression has matched up to end
NumberToken(L, end) ==
  [ok |-> TRUE,
   token |-> Token(NUMBER, NumberValue(SubSeq(text, L.pos + 1, end))),
   lexer |-> [pos |-> end, line |-> L.line, col |-> L.col + (end - L.pos)]]

Keyword(ident) ==
  IF ident = "var" THEN Token(VAR, StrV(ident))
  ELSE IF ident = "ord" THEN Token(ORD, StrV(ident))
  ELSE Token(IDENTIFIER, StrV(ident))

IdentifierRead(r) ==
  [ok |-> TRUE, token |-> Keyword(r.value), lexer |-> r.lexer]

IdentifierToken(L) == IdentifierRead(read_identifier(L))

StringRead(r) ==
  IF r.ok
  THEN [ok |-> TRUE, token |-> Token(STRING_T, StrV(r.value)),
        lexer |-> r.lexer]
  ELSE r

\* next_token after skip_whitespace
scan_token(L, ch) ==
  IF L.pos >= Len(text)
  THEN [ok |-> TRUE, token |-> Token(EOF, None), lexer |-> L]
  ELSE IF ch = "\""
  THEN StringRead(read_string(L))
  ELSE IF NumberStart(L) /\ NUMBER_REGEX(L.pos) >= 0
  THEN NumberToken(L, NUMBER_REGEX(L.pos))
  ELSE IF isalpha(ch) \/ ch = "_"
  THEN IdentifierToken(L)
  ELSE IF ch \in Symbols
  THEN [ok |-> TRUE, token |-> Token(SymbolType(ch), StrV(ch)),
        lexer |-> advance(L)]
  ELSE error(L, "UnknownCharacter", ch)

at_token(L) == scan_token(L, peek(L))

next_token(L) == at_token(skip_whitespace(L))

----------------------------------------------------------------------------
(* Python dict: insertion-ordered mapping, kept as a sequence of           *)
(* [key, value] pairs with distinct keys.  d[k] = v replaces the value of  *)
(* an existing key in place and appends a new key at the end.              *)

DictHas(d, k) == \E i \in 1..Len(d) : d[i].key = k

DictGet(d, k) == d[CHOOSE i \in 1..Len(d) : d[i].key = k].value

\* DictSet with the bug of keeping the first value of a key
DictSet_KeepFirst(d, k, v) ==
  IF DictHas(d, k) THEN d ELSE Append(d, [key |-> k, value |-> v])

\* DictSet with the bug of adding a second pair for a key already present
DictSet_Append(d, k, v) == Append(d, [key |-> k, value |-> v])

DictSet(d, k, v) ==
  IF DictHas(d, k)
  THEN [i \in 1..Len(d) |-> IF d[i].key = k THEN [key |-> k, value |-> v]
                            ELSE d[i]]
  ELSE Append(d, [key |-> k, value |-> v])

DictKeys(d) == [i \in 1..Len(d) |-> d[i].key]

----------------------------------------------------------------------------
(* Python's binary +, -, * on values.  The result is [ok, value]; ok is    *)
(* FALSE where Python raises TypeError.                                    *)

RECURSIVE Repeat(_, _, _)
Repeat(s, n, empty) == IF n <= 0 THEN empty ELSE s \o Repeat(s, n - 1, empty)

Good(v) == [ok |-> TRUE, value |-> v]
Bad == [ok |-> FALSE]

\* py_add with the bug of subtracting integers
py_add_Minus(a, b) ==
  IF a.t = "int" /\ b.t = "int" THEN Good(IntV(a.v - b.v))
  ELSE IF IsNum(a) /\ IsNum(b)
  THEN LET fa == AsFloat(a)
           fb == AsFloat(b)
           s  == Max(fa[2], fb[2])
       IN  Good(FloatV(Scaled(fa, s) - Scaled(fb, s), s))
  ELSE IF a.t = "str" /\ b.t = "str" THEN Good(StrV(a.v \o b.v))
  ELSE IF a.t = "arr" /\ b.t = "arr" THEN Good(ArrV(a.v \o b.v))
  ELSE Bad

py_add(a, b) ==
  IF a.t = "int" /\ b.t = "int" THEN Good(IntV(a.v + b.v))
  ELSE IF IsNum(a) /\ IsNum(b)
  THEN LET fa == AsFloat(a)
           fb == AsFloat(b)
           s  == Max(fa[2], fb[2])
       IN  Good(FloatV(Scaled(fa, s) + Scaled(fb, s), s))
  ELSE IF a.t = "str" /\ b.t = "str" THEN Good(StrV(a.v \o b.v))
  ELSE IF a.t = "arr" /\ b.t = "arr" THEN Good(ArrV(a.v \o b.v))
  ELSE Bad

py_sub(a, b) ==
  IF a.t = "int" /\ b.t = "int" THEN Good(IntV(a.v - b.v))
  ELSE IF IsNum(a) /\ IsNum(b)
  THEN LET fa == AsFloat(a)
           fb == AsFloat(b)
           s  == Max(fa[2], fb[2])
       IN  Good(FloatV(Scaled(fa, s) - Scaled(fb, s), s))
  ELSE Bad

py_mul(a, b) ==
  IF a.t = "int" /\ b.t = "int" THEN Good(IntV(a.v * b.v))
  ELSE IF IsNum(a) /\ IsNum(b)
  THEN LET fa == AsFloat(a)
           fb == AsFloat(b)
       IN  Good(FloatV(fa[1] * fb[1], fa[2] + fb[2]))
  ELSE IF a.t = "str" /\ b.t = "int" THEN Good(StrV(Repeat(a.v, b.v, "")))
  ELSE IF a.t = "int" /\ b.t = "str" THEN Good(StrV(Repeat(b.v, a.v, "")))
  ELSE IF a.t = "arr" /\ b.t = "int" THEN Good(ArrV(Repeat(a.v, b.v, <<>>)))
  ELSE IF a.t = "int" /\ b.t = "arr" THEN Good(ArrV(Repeat(b.v, a.v, <<>>)))
  ELSE Bad

\* type(x).__name__
TypeName(x) == IF x.t = "arr" THEN "list" ELSE x.t

IsSequence(x) == x.t \in {"str", "arr"}

\* str(e) of the TypeError that left op right raises
type_error_text(op, left, right) ==
  IF op = PLUS /\ IsSequence(left)
  THEN "can only concatenate " \o TypeName(left) \o " (not \""
         \o TypeName(right) \o "\") to " \o TypeName(left)
  ELSE IF op = MULTIPLY
  THEN "can't multiply sequence by non-int of type '"
         \o TypeName(IF IsSequence(left) THEN right ELSE left) \o "'"
  ELSE "unsupported operand type(s) for "
         \o (IF op = PLUS THEN "+" ELSE "-") \o ": '"
         \o TypeName(left) \o "' and '" \o TypeName(right) \o "'"

----------------------------------------------------------------------------
(* Parser.  A parser state is [lexer, current_token, constants]; every     *)
(* method gives [ok |-> TRUE, value, st] or, when it raises,               *)
(* [ok |-> FALSE, err, lexer].  Bind(r, K) is "r, then K": the exception   *)
(* of r when it raised, and otherwise what K makes of its result.          *)

Ok(v, S) == [ok |-> TRUE, value |-> v, st |-> S]

Bind(r, K(_)) == IF r.ok THEN K(r) ELSE r

\* eat with the bug of consuming the token whatever its kind
eat_Lenient(S, token_type) ==
  Bind(next_token(S.lexer),
       LAMBDA r : Ok(S.current_token,
                     [S EXCEPT !.lexer = r.lexer, !.current_token = r.token]))

\* eat with the error of reading the next token left for later: the token
\* is consumed and the text is taken to end there
eat_Deferred(S, token_type) ==
  IF S.current_token.type # token_type
  THEN [error(S.lexer, "UnexpectedToken", token_type)
          EXCEPT !.err.got = S.current_token.type]
  ELSE LET r == next_token(S.lexer)
       IN  IF r.ok
           THEN Ok(S.current_token,
                   [S EXCEPT !.lexer = r.lexer, !.current_token = r.token])
           ELSE Ok(S.current_token,
                   [S EXCEPT !.current_token = Token(EOF, None)])

eat(S, token_type) ==
  IF S.current_token.type # token_type
  THEN [error(S.lexer, "UnexpectedToken", token_type)
          EXCEPT !.err.got = S.current_token.type]
  ELSE Bind(next_token(S.lexer),
            LAMBDA r : Ok(S.current_token,
                          [S EXCEPT !.lexer = r.lexer,
                                    !.current_token = r.token]))

parse_identifier(S) ==
  Bind(eat(S, IDENTIFIER), LAMBDA token : Ok(token.value.value.v, token.st))

parse_number(S) ==
  Bind(eat(S, NUMBER), LAMBDA token : Ok(token.value.value, token.st))

parse_string(S) ==
  Bind(eat(S, STRING_T), LAMBDA token : Ok(token.value.value, token.st))

\* Apply with the bug of taking the operands in the other order
Apply_Swapped(op, left, right, S) ==
  LET r == CASE op = PLUS -> py_add(right, left)
             [] op = MINUS -> py_sub(right, left)
             [] op = MULTIPLY -> py_mul(right, left)
  IN  IF r.ok THEN Ok(r.value, S)
      ELSE TypeError(S.lexer, type_error_text(op, right, left))

\* left op right, raising TypeError where the operator does
Apply(op, left, right, S) ==
  LET r == CASE op = PLUS -> py_add(left, right)
             [] op = MINUS -> py_sub(left, right)
             [] op = MULTIPLY -> py_mul(left, right)
  IN  IF r.ok THEN Ok(r.value, S)
      ELSE TypeError(S.lexer, type_error_text(op, left, right))

\* ord_first with the bug of taking the last character
ord_first_Last(arg) == CodePoint(SubSeq(arg, Len(arg), Len(arg)))

\* ord(arg[0]) of the ORD branch
ord_first(arg) == CodePoint(SubSeq(arg, 1, 1))

\* ord_result with the bug of giving 0 for an argument that is no
\* non-empty string
ord_result_Zero(arg, S) ==
  IF arg.t = "str" /\ Len(arg.v) > 0
  THEN Ok(IntV(ord_first(arg.v)), S)
  ELSE Ok(IntV(0), S)

\* the end of the ORD branch: the code of the first character of a
\* non-empty string, an error for any other argument
ord_result(arg, S) ==
  IF arg.t = "str" /\ Len(arg.v) > 0
  THEN Ok(IntV(ord_first(arg.v)), S)
  ELSE error(S.lexer, "InvalidArgument", "ord")

\* lookup_constant with the bug of giving 0 for a name that is not bound
lookup_constant_Default(S, name) ==
  IF DictHas(S.constants, name)
  THEN Ok(DictGet(S.constants, name), S)
  ELSE Ok(IntV(0), S)

\* the test of the IDENTIFIER branch: the constant's value, or the
\* unknown-constant error
lookup_constant(S, name) ==
  IF DictHas(S.constants, name)
  THEN Ok(DictGet(S.constants, name), S)
  ELSE error(S.lexer, "UnknownConstant", name)

RECURSIVE parse_prefix_expression(_)
parse_prefix_expression(S) ==
  LET type == S.current_token.type
  IN  IF type \in {PLUS, MINUS, MULTIPLY}
      THEN Bind(eat(S, type), LAMBDA e :
           Bind(parse_prefix_expression(e.st), LAMBDA left :
           Bind(parse_prefix_expression(left.st), LAMBDA right :
           Apply(type, left.value, right.value, right.st))))
      ELSE IF type = ORD
      THEN Bind(eat(S, ORD), LAMBDA e1 :
           Bind(eat(e1.st, LPAREN), LAMBDA e2 :
           Bind(parse_prefix_expression(e2.st), LAMBDA arg :
           Bind(eat(arg.st, RPAREN), LAMBDA e3 :
           ord_result(arg.value, e3.st)))))
      ELSE IF type = IDENTIFIER
      THEN Bind(parse_identifier(S), LAMBDA name :
           lookup_constant(name.st, name.value))
      ELSE IF type = NUMBER THEN parse_number(S)
      ELSE IF type = STRING_T THEN parse_string(S)
      ELSE error(S.lexer, "UnexpectedExprToken", type)

parse_constant_expression(S) ==
  Bind(eat(S, AT), LAMBDA e1 :
  Bind(eat(e1.st, LPAREN), LAMBDA e2 :
  Bind(parse_prefix_expression(e2.st), LAMBDA result :
  Bind(eat(result.st, RPAREN), LAMBDA e3 :
  Ok(result.value, e3.st)))))

RECURSIVE parse_value(_)
RECURSIVE parse_array_loop(_, _)

\* array_append with the bug of adding at the front
array_append_Front(array, value) == <<value>> \o array

\* array.append(value)
array_append(array, value) == Append(array, value)

\* the while loop of parse_array: one iteration per ';'
parse_array_loop(S, array) ==
  IF S.current_token.type = SEMICOLON
  THEN Bind(eat(S, SEMICOLON), LAMBDA e :
       Bind(parse_value(e.st), LAMBDA v :
       parse_array_loop(v.st, array_append(array, v.value))))
  ELSE Ok(array, S)

\* the elements of parse_array, between the brackets
parse_array_elements(S) ==
  IF S.current_token.type # RBRACKET
  THEN Bind(parse_value(S), LAMBDA v :
       parse_array_loop(v.st, array_append(<<>>, v.value)))
  ELSE Ok(<<>>, S)

parse_array(S) ==
  Bind(eat(S, LBRACKET), LAMBDA e1 :
  Bind(parse_array_elements(e1.st), LAMBDA array :
  Bind(eat(array.st, RBRACKET), LAMBDA e2 :
  Ok(ArrV(array.value), e2.st))))

\* the else branch of parse_value with an identifier taken as a reference
\* to a constant
no_value_Reference(S) ==
  IF S.current_token.type = IDENTIFIER
  THEN Bind(parse_identifier(S), LAMBDA name :
       lookup_constant(name.st, name.value))
  ELSE error(S.lexer, "ExpectedValue", S.current_token.type)

\* the else branch of parse_value
no_value(S) == error(S.lexer, "ExpectedValue", S.current_token.type)

parse_value(S) ==
  LET type == S.current_token.type
  IN  IF type = NUMBER THEN parse_number(S)
      ELSE IF type = STRING_T THEN parse_string(S)
      ELSE IF type = LBRACKET THEN parse_array(S)
      ELSE IF type = AT THEN parse_constant_expression(S)
      ELSE no_value(S)

\* every constant takes the value declared last
bind_constant_Clobber(S, name, value) ==
  [S EXCEPT !.constants =
     DictSet([i \in 1..Len(@) |-> [key |-> @[i].key, value |-> value]],
             name, value)]

\* self.constants[name] = value
bind_constant(S, name, value) ==
  [S EXCEPT !.constants = DictSet(@, name, value)]

\* the end of parse_constant_declaration_Semicolon
optional_semicolon(S, value) ==
  IF S.current_token.type = SEMICOLON
  THEN Bind(eat(S, SEMICOLON), LAMBDA e : Ok(value, e.st))
  ELSE Ok(value, S)

\* parse_constant_declaration with a ';' after the value accepted
parse_constant_declaration_Semicolon(S) ==
  Bind(eat(S, VAR), LAMBDA e :
  Bind(parse_identifier(e.st), LAMBDA name :
  Bind(parse_value(name.st), LAMBDA value :
  optional_semicolon(bind_constant(value.st, name.value, value.value),
                     value.value))))

\* Parser.parse_constant_declaration: the constants after it
parse_constant_declaration(S) ==
  Bind(eat(S, VAR), LAMBDA e :
  Bind(parse_identifier(e.st), LAMBDA name :
  Bind(parse_value(name.st), LAMBDA value :
  Ok(value.value, bind_constant(value.st, name.value, value.value)))))

\* the else branch of the loop of Parser.parse: value is the [key, value]
\* pair assigned to config
parse_entry(S) ==
  Bind(parse_identifier(S), LAMBDA name :
  Bind(eat(name.st, SEMICOLON), LAMBDA e :
  Bind(parse_value(e.st), LAMBDA value :
  Ok([key |-> name.value, value |-> value.value], value.st))))

----------------------------------------------------------------------------
(* json.dumps(result, indent=2, ensure_ascii=False) and the value          *)
(* convert_to_json returns.                                                *)

DigitChar(d) == SubSeq("0123456789", d + 1, d + 1)

RECURSIVE NatStr(_)
NatStr(n) == IF n < 10 THEN DigitChar(n)
             ELSE NatStr(n \div 10) \o DigitChar(n % 10)

\* int.__repr__
IntStr(n) == IF n < 0 THEN "-" \o NatStr(-n) ELSE NatStr(n)

RECURSIVE PadZeros(_, _)
PadZeros(str, width) ==
  IF Len(str) >= width THEN str ELSE PadZeros("0" \o str, width)

\* float.__repr__ of m / 10^s, in the range where it is written without an
\* exponent (0, and 1e-4 <= |x| < 1e16)
FloatStr(f) ==
  LET a == IF f[1] < 0 THEN -f[1] ELSE f[1]
  IN  (IF f[1] < 0 THEN "-" ELSE "")
        \o NatStr(a \div Pow10(f[2])) \o "."
        \o (IF f[2] = 0 THEN "0" ELSE PadZeros(NatStr(a % Pow10(f[2])), f[2]))

\* the JSON escape of one character (ensure_ascii=False keeps the others)
EscapeChar(ch) ==
  CASE ch = "\"" -> "\\\""
    [] ch = "\\" -> "\\\\"
    [] ch = "\n" -> "\\n"
    [] ch = "\r" -> "\\r"
    [] ch = "\t" -> "\\t"
    [] OTHER -> ch

RECURSIVE Escape(_)
Escape(str) ==
  IF str = "" THEN ""
  ELSE EscapeChar(SubSeq(str, 1, 1)) \o Escape(SubSeq(str, 2, Len(str)))

json_string(str) == "\"" \o Escape(str) \o "\""

RECURSIVE Indent(_)
Indent(level) == IF level = 0 THEN "" ELSE "  " \o Indent(level - 1)

RECURSIVE json_value(_, _)
RECURSIVE json_items(_, _)

\* the elements of a non-empty list, one per line
json_items(q, level) ==
  Indent(level) \o json_value(q[1], level)
    \o (IF Len(q) = 1 THEN "" ELSE ",\n" \o json_items(Tail(q), level))

json_value(x, level) ==
  CASE x.t = "int" -> IntStr(x.v)
    [] x.t = "float" -> FloatStr(x.v)
    [] x.t = "str" -> json_string(x.v)
    [] x.t = "arr" ->
         IF x.v = <<>> THEN "[]"
         ELSE "[\n" \o json_items(x.v, level + 1) \o "\n"
                \o Indent(level) \o "]"

\* the members of a non-empty dict, one per line
RECURSIVE json_members(_)
json_members(d) ==
  Indent(1) \o json_string(d[1].key) \o ": " \o json_value(d[1].value, 1)
    \o (IF Len(d) = 1 THEN "" ELSE ",\n" \o json_members(Tail(d)))

json_dumps(d) == IF d = <<>> THEN "{}" ELSE "{\n" \o json_members(d) \o "\n}"

NoError == [exc |-> "", kind |-> "", located |-> FALSE,
            line |-> 0, col |-> 0, arg |-> "", got |-> ""]

\* What convert_to_json returns.  rendering = "json": text is the string.
\* The two error returns begin with Cyrillic words, which a TLA+ string
\* cannot hold, so they are kept in parts:
\*   "syntax_error"  "Ошибка синтаксиса: " then str(e), which is
\*                   "Строка {e.line}, колонка {e.col}: " then the message
\*                   that e.kind, e.arg and e.got name
\*   "error"         "Ошибка: " then text, the str(e) of the TypeError
NoOutput == [rendering |-> "", text |-> "", e |-> NoError]

\* convert_to_json with the bug of rendering config in the except branches
convert_to_json_Partial(raised, result, e) ==
  [rendering |-> "json", text |-> json_dumps(result), e |-> NoError]

\* the return of convert_to_json: raised tells whether an exception left
\* the try block, result is the value of parser.parse(), e the exception
convert_to_json(raised, result, e) ==
  IF ~raised
  THEN [rendering |-> "json", text |-> json_dumps(result), e |-> NoError]
  ELSE IF e.exc = "SyntaxError"
  THEN [rendering |-> "syntax_error", text |-> "", e |-> e]
  ELSE [rendering |-> "error", text |-> e.arg, e |-> e]

----------------------------------------------------------------------------
(* Input texts.                                                            *)
(* A first family: concatenations of at most MaxItems top-level items,     *)
(* constant declarations (with and without a ';' after them) and entries,  *)
(* whose values are a literal or a reference to a constant.                *)

MaxItems == 3

RECURSIVE SeqsUpTo(_, _)
SeqsUpTo(S, n) ==
  IF n = 0 THEN {<<>>}
  ELSE LET shorter == SeqsUpTo(S, n - 1)
       IN  shorter \cup {Append(q, x) : q \in {r \in shorter : Len(r) = n - 1},
                                        x \in S}

\* a value as written, with what it denotes: n, plus the constant ref if any
ValueForms ==
  { [src |-> "5", ref |-> "", n |-> 5],
    [src |-> "@(+ x 2)", ref |-> "x", n |-> 2] }

DeclItems ==
  { [kind |-> "var", name |-> nm, val |-> v, semi |-> sm,
     src |-> "var " \o nm \o " " \o v.src \o (IF sm THEN "; " ELSE " ")] :
      nm \in {"x", "y"}, v \in ValueForms, sm \in BOOLEAN }

EntryItems ==
  { [kind |-> "entry", name |-> nm, val |-> v, semi |-> FALSE,
     src |-> nm \o "; " \o v.src \o " "] :
      nm \in {"a", "b"}, v \in ValueForms }

Items == DeclItems \cup EntryItems

RECURSIVE Concat(_)
Concat(q) == IF q = <<>> THEN "" ELSE Head(q).src \o Concat(Tail(q))

ItemTexts == { Concat(q) : q \in SeqsUpTo(Items, MaxItems) }

\* the elements of q written one after the other, sep between them
RECURSIVE Join(_, _)
Join(q, sep) ==
  IF q = <<>> THEN ""
  ELSE IF Len(q) = 1 THEN q[1]
  ELSE q[1] \o sep \o Join(Tail(q), sep)

(* One entry whose value is @( ... ) around every sequence of at most      *)
(* MaxExprLen operators and integer operands.                              *)

MaxExprLen == 5

ExprOperators == {"+", "-", "*"}
ExprOperands == {"10", "3"}

\* some expressions with a negative literal
NegativeExprs ==
  { <<"-3">>, <<"-", "10", "-3">>, <<"+", "-3", "-3">>, <<"-", "-3">>,
    <<"*", "-3", "10", "3">> }

ExprText(toks) == "a;@(" \o Join(toks, " ") \o ")"

ExprTexts ==
  { ExprText(q) :
      q \in SeqsUpTo(ExprOperators \cup ExprOperands, MaxExprLen)
               \cup NegativeExprs }

(* One entry whose value applies ord, with and without the parentheses     *)
(* around its operand.                                                     *)

OrdArgs == {"\"A\"", "\"ab\"", "\"\"", "65"}

OrdText(open, arg, close) == "a; @(ord" \o open \o arg \o close \o ") "

OrdTexts ==
  { OrdText(o, arg, c) : o \in {"(", " "}, arg \in OrdArgs, c \in {")", ""} }

(* One entry whose value is, or multiplies, a number written with a        *)
(* decimal point or an exponent.                                           *)

FloatTexts ==
  { "a; " \o v \o " " :
      v \in {"2.5", "@(* 2.5 4)", "@(* 4 2.5)", "-2.5", "2.5e1", "10",
             "25e-1", "@(* 25e-1 4)", "2e0", "2E1", "@(+ 5e-1 5e-1)",
             "@(- 1 5e-1)", "2e", "2e+"} }

(* One entry whose value is an array of at most MaxArrayLen elements.      *)

MaxArrayLen == 3

ArrayElems == {"1", "2", "3", "\"s\"", "[]", "[1; [2]]"}

ArrayText(elems) == "name; [" \o Join(elems, "; ") \o "] "

ArrayTexts == { ArrayText(q) : q \in SeqsUpTo(ArrayElems, MaxArrayLen) }

(* Texts that end inside a string literal: a well-formed beginning, the    *)
(* opening quote, and a body without a closing quote.                      *)

StringPrefixes ==
  {"a; ", "a;\n", "var x ", "a; [1; ", "a; @(ord(", "var x 5\nb;\n  "}

OpenBodies == {"", "abc", "ab\\\"", "a\\", "a\nb", "\\\n"}

OpenStringText(prefix, body) == prefix \o "\"" \o body

OpenStringTexts ==
  { OpenStringText(p, b) : p \in StringPrefixes, b \in OpenBodies }

(* Texts in which a token is missing, misplaced or in excess.  expected    *)
(* and got are the kind the grammar of Parser wants at the first such      *)
(* place and the kind of the token found there; before is the number of    *)
(* entries that come before it.                                            *)

MalformedCases ==
  { [src |-> "name 5", expected |-> SEMICOLON, got |-> NUMBER, before |-> 0],
    [src |-> "a \"s\"", expected |-> SEMICOLON, got |-> STRING_T, before |-> 0],
    [src |-> "a b; 5", expected |-> SEMICOLON, got |-> IDENTIFIER, before |-> 0],
    [src |-> "a [1]", expected |-> SEMICOLON, got |-> LBRACKET, before |-> 0],
    [src |-> "a", expected |-> SEMICOLON, got |-> EOF, before |-> 0],
    [src |-> "a; 5 b 6", expected |-> SEMICOLON, got |-> NUMBER, before |-> 1],
    [src |-> "a; 5 b; 6 c 7", expected |-> SEMICOLON, got |-> NUMBER,
     before |-> 2],
    [src |-> "a; [1 2]", expected |-> RBRACKET, got |-> NUMBER, before |-> 0],
    [src |-> "a; [1; 2", expected |-> RBRACKET, got |-> EOF, before |-> 0],
    [src |-> "a; [1; 2)", expected |-> RBRACKET, got |-> RPAREN, before |-> 0],
    [src |-> "a; @ + 1 2)", expected |-> LPAREN, got |-> PLUS, before |-> 0],
    [src |-> "a; @[+ 1 2]", expected |-> LPAREN, got |-> LBRACKET,
     before |-> 0],
    [src |-> "a; @(+ 1 2", expected |-> RPAREN, got |-> EOF, before |-> 0],
    [src |-> "a; @(+ 1 2 3)", expected |-> RPAREN, got |-> NUMBER,
     before |-> 0],
    [src |-> "a; @(ord(\"A\" 1))", expected |-> RPAREN, got |-> NUMBER,
     before |-> 0],
    [src |-> "var 5 5", expected |-> IDENTIFIER, got |-> NUMBER, before |-> 0],
    [src |-> "var var x 5", expected |-> IDENTIFIER, got |-> VAR, before |-> 0],
    [src |-> "5; 5", expected |-> IDENTIFIER, got |-> NUMBER, before |-> 0],
    [src |-> "a; 5 ; 6", expected |-> IDENTIFIER, got |-> SEMICOLON,
     before |-> 1],
    [src |-> "a; 5 ord; 6", expected |-> IDENTIFIER, got |-> ORD,
     before |-> 1],
    [src |-> "a; 5 ]", expected |-> IDENTIFIER, got |-> RBRACKET,
     before |-> 1] }

\* texts with a token that is no value where a value is wanted
NoValueCases ==
  { [src |-> "a; ]", got |-> RBRACKET, before |-> 0],
    [src |-> "a; ;", got |-> SEMICOLON, before |-> 0],
    [src |-> "a;", got |-> EOF, before |-> 0],
    [src |-> "a; 5 b; b", got |-> IDENTIFIER, before |-> 1],
    [src |-> "a; [1; ]", got |-> RBRACKET, before |-> 0],
    [src |-> "var x var", got |-> VAR, before |-> 0] }

MalformedTexts ==
  { c.src : c \in MalformedCases } \cup { c.src : c \in NoValueCases }

(* Entries with distinct names whose values are literals: numbers, strings *)
(* and arrays of them.  value is what the literal denotes.                 *)

MaxLiterals == 2

LiteralNames == {"p", "q", "r"}

LiteralForms ==
  { [src |-> "5", value |-> IntV(5)],
    [src |-> "-5", value |-> IntV(-5)],
    [src |-> "\"s\"", value |-> StrV("s")],
    [src |-> "2.5", value |-> FloatV(25, 1)],
    [src |-> "2e1", value |-> FloatV(20, 0)],
    [src |-> "[1; \"s\"]", value |-> ArrV(<<IntV(1), StrV("s")>>)],
    [src |-> "[[-5]; []]",
     value |-> ArrV(<<ArrV(<<IntV(-5)>>), ArrV(<<>>)>>)] }

\* the sequences of at most MaxLiterals entries with distinct names
LiteralSeqs ==
  { q \in SeqsUpTo([name : LiteralNames, form : LiteralForms], MaxLiterals) :
      \A i, j \in 1..Len(q) : q[i].name = q[j].name => i = j }

RECURSIVE LiteralText(_)
LiteralText(q) ==
  IF q = <<>> THEN ""
  ELSE Head(q).name \o "; " \o Head(q).form.src \o "\n"
         \o LiteralText(Tail(q))

LiteralTexts == { LiteralText(q) : q \in LiteralSeqs }

(* One entry whose value applies an operator to two literal operands,      *)
(* numbers or strings.                                                     *)

Operands ==
  { [src |-> "2", kind |-> "number"],
    [src |-> "5e-1", kind |-> "number"],
    [src |-> "\"ab\"", kind |-> "string"],
    [src |-> "\"\"", kind |-> "string"] }

OperandText(op, left, right) ==
  "t; @(" \o op \o " " \o left \o " " \o right \o ") "

OperandTexts ==
  { OperandText(op, l.src, r.src) :
      op \in ExprOperators, l \in Operands, r \in Operands }

(* A constant x, declared with a value of each type, and one entry whose   *)
(* value is an expression over x.                                          *)

ConstantValues == {"5", "\"sa\"", "\"\"", "[1]", "[]"}

ConstantExprs ==
  {"x", "+ x x", "* x 2", "* 2 x", "- x x", "+ x 1", "ord(x)", "ord(+ x x)"}

ConstantText(d, e) == "var x " \o d \o " c; @(" \o e \o ") "

ConstantTexts ==
  { ConstantText(d, e) : d \in ConstantValues, e \in ConstantExprs }

\* x declared, used by a constant and by an entry, declared again and used
\* again
SnapshotFirst == {"1", "5", "10"}
SnapshotSecond == {"1", "5", "@(+ x 1)"}

SnapshotText(v1, v2) ==
  "var x " \o v1 \o " var y @(+ x 1) a; @(* x 2) var x " \o v2
    \o " b; @(+ x 1) c; @(y) "

SnapshotTexts ==
  { SnapshotText(v1, v2) : v1 \in SnapshotFirst, v2 \in SnapshotSecond }

\* an identifier where a value is expected, with x declared or not
IdentPrefixes == {"", "var x 5 ", "var y 5 b; 5 "}
IdentPlaces == {"a; x", "var z x", "a; [x", "a; [1; x", "a; [[x"}
IdentSuffixes == {"", "]", " #"}

IdentTexts ==
  { p \o q \o r : p \in IdentPrefixes, q \in IdentPlaces, r \in IdentSuffixes }

\* a reference to y, which no declaration binds, within `@(`: what is
\* before it is well-formed; after it comes a text whose first token can be
\* read (or nothing), or a text that begins with a lexical defect
UndeclaredHeads ==
  {"a; @(", "a; @(+ ", "a; @(+ 1 ", "var x 5 a; @(* x ", "a; @(ord("}

ReadableTails == {"", ")", " 1)", " y", "; [", " 1 #", ") \"", " @ #"}

DefectTails ==
  { [tail |-> "#", kind |-> "UnknownCharacter"],
    [tail |-> " #)", kind |-> "UnknownCharacter"],
    [tail |-> " !", kind |-> "UnknownCharacter"],
    [tail |-> " \"", kind |-> "UnterminatedString"],
    [tail |-> "\n\"ab)", kind |-> "UnterminatedString"] }

UndeclaredTexts ==
  { h \o "y" \o t :
      h \in UndeclaredHeads, t \in ReadableTails \cup {d.tail : d \in DefectTails} }

Inputs ==
  ItemTexts \cup ExprTexts \cup OrdTexts \cup FloatTexts \cup ArrayTexts
    \cup OpenStringTexts \cup MalformedTexts \cup LiteralTexts
    \cup OperandTexts \cup ConstantTexts \cup SnapshotTexts \cup IdentTexts
    \cup UndeclaredTexts

----------------------------------------------------------------------------
(* convert_to_json, one step per top-level item of the text.                *)
(*   pc = "init"    Lexer(input_text) built, Parser(lexer) not yet          *)
(*   pc = "parse"   at the test of the while loop of Parser.parse           *)
(*   pc = "done"    parse returned config, output is its rendering          *)
(*   pc = "raised"  an exception left the try block; err describes it and   *)
(*                  output is the message returned                          *)
(* and then main, which called it on the text it had read, prints the      *)
(* string returned and ends the process.                                   *)

NoToken == Token("", None)

\* main has read input_text and has written nothing to standard output yet
Running == [exited |-> FALSE, status |-> 0, stdout |-> <<>>]

\* the shell emulator of src/Etap3.py is another program: beside the
\* converter its VFS stays as constructed and no command is given
Directory(children) == [type |-> "directory", children |-> children]

\* VFS.__init__
VFSInit == [root |-> Directory(<<>>), current_path |-> "/"]

NoReply == [command |-> "", args |-> <<>>, raised |-> FALSE,
            success |-> TRUE, kind |-> "", arg |-> ""]

Init ==
  /\ text \in Inputs
  /\ lexer = LexerInit
  /\ current_token = NoToken
  /\ constants = <<>>
  /\ config = <<>>
  /\ pc = "init"
  /\ err = NoError
  /\ output = NoOutput
  /\ process = Running
  /\ vfs = VFSInit
  /\ reply = NoReply

ParserState == [lexer |-> lexer, current_token |-> current_token,
                constants |-> constants]

\* an exception leaves Parser(lexer) or parser.parse(): the except branch
\* of convert_to_json returns its message
Raise(r) ==
  /\ pc' = "raised"
  /\ err' = r.err
  /\ lexer' = r.lexer
  /\ output' = convert_to_json(TRUE, config, r.err)
  /\ UNCHANGED <<process, vfs, reply, text, current_token, constants, config>>

\* Parser.__init__: the first token is read
FirstToken(r) ==
  IF r.ok
  THEN /\ lexer' = r.lexer
       /\ current_token' = r.token
       /\ pc' = "parse"
       /\ UNCHANGED <<process, vfs, reply, text, constants, config, err, output>>
  ELSE Raise(r)

ParserInit ==
  /\ pc = "init"
  /\ FirstToken(next_token(lexer))

\* one iteration of the loop of Parser.parse, VAR branch
Declared(r) ==
  IF r.ok
  THEN /\ lexer' = r.st.lexer
       /\ current_token' = r.st.current_token
       /\ constants' = r.st.constants
       /\ UNCHANGED <<process, vfs, reply, text, config, pc, err, output>>
  ELSE Raise(r)

ParseConstantDeclaration ==
  /\ pc = "parse"
  /\ current_token.type = VAR
  /\ Declared(parse_constant_declaration(ParserState))

\* the entry is stored and the loop tests the token it began with again
Assigned_NoAdvance(r) ==
  IF r.ok
  THEN /\ config' = DictSet(config, r.value.key, r.value.value)
       /\ UNCHANGED <<process, vfs, reply, text, lexer, current_token,
                      constants, pc, err, output>>
  ELSE Raise(r)

\* one iteration of the loop of Parser.parse, else branch
Assigned(r) ==
  IF r.ok
  THEN /\ lexer' = r.st.lexer
       /\ current_token' = r.st.current_token
       /\ config' = DictSet(config, r.value.key, r.value.value)
       /\ UNCHANGED <<process, vfs, reply, text, constants, pc, err, output>>
  ELSE Raise(r)

ParseEntry ==
  /\ pc = "parse"
  /\ current_token.type \notin {EOF, VAR}
  /\ Assigned(parse_entry(ParserState))

\* the loop of Parser.parse ends at EOF, config is returned and
\* convert_to_json returns its rendering
ParseReturn ==
  /\ pc = "parse"
  /\ current_token.type = EOF
  /\ pc' = "done"
  /\ output' = convert_to_json(FALSE, config, NoError)
  /\ UNCHANGED <<process, vfs, reply, text, lexer, current_token, constants, config, err>>

\* main prints what convert_to_json returned and returns: the interpreter
\* exits with status 0
MainExit ==
  /\ pc \in {"done", "raised"}
  /\ ~process.exited
  /\ process' = [exited |-> TRUE, status |-> 0, stdout |-> <<output>>]
  /\ UNCHANGED <<vfs, reply, text, lexer, current_token, constants, config,
                 pc, err, output>>

Next ==
  \/ ParserInit
  \/ ParseConstantDeclaration
  \/ ParseEntry
  \/ ParseReturn
  \/ MainExit

Spec == Init /\ [][Next]_vars

----------------------------------------------------------------------------
(* The Lexer alone: next_token called again and again on a text, as        *)
(* Parser does through eat.  The texts are every sequence of at most       *)
(* MaxLexLen pieces, and some longer ones.                                 *)
(*   pc = "lex"     next_token can be called (after EOF it gives EOF again) *)
(*   pc = "raised"  next_token raised; err describes the exception          *)

MaxLexLen == 3

LexPieces ==
  {"-", "5", ".", " ", "\n", "a", "_", "é", "#", "\"", "\\", "var"}

LexExtras ==
  { "\"a\\\"b\" 5", "\"\\\\\" a", "\"\\n\\t\" -", "\"a\nb\\\n\"\n-5",
    "\"\\\"", "\"a\\", "\"\\\\\\\"\" ", "a - 5 -5 -.5 --5 - -a",
    "x_1 _y µ ord orda 5a a5", "@[];()+-* \t\r\n !", "5-5 5 -5e-1 -e" }

LexTexts == { Join(q, "") : q \in SeqsUpTo(LexPieces, MaxLexLen) } \cup LexExtras

LexInit ==
  /\ text \in LexTexts
  /\ lexer = LexerInit
  /\ current_token = NoToken
  /\ constants = <<>>
  /\ config = <<>>
  /\ pc = "lex"
  /\ err = NoError
  /\ output = NoOutput
  /\ process = Running
  /\ vfs = VFSInit
  /\ reply = NoReply

\* the token returned, or the exception raised
Lexed(r) ==
  IF r.ok
  THEN /\ lexer' = r.lexer
       /\ current_token' = r.token
       /\ UNCHANGED <<process, vfs, reply, text, constants, config, pc, err, output>>
  ELSE /\ pc' = "raised"
       /\ err' = r.err
       /\ lexer' = r.lexer
       /\ UNCHANGED <<process, vfs, reply, text, current_token, constants, config, output>>

NextToken ==
  /\ pc = "lex"
  /\ Lexed(next_token(lexer))

LexNext == NextToken

LexSpec == LexInit /\ [][LexNext]_vars

----------------------------------------------------------------------------
(* The shell emulator of src/Etap3.py: a VFS, which is a tree of nodes and *)
(* a current path, and the commands ls, cd and vfs-init of ShellEmulator.  *)
(* A directory is [type, children], children the sequence of [name, node]  *)
(* in the order of the dict; a file is [type] (no command reads its        *)
(* content); NoneNode is Python's None.  The messages are named by kind:   *)
(*   PathNotFound        "Путь не найден: P"                               *)
(*   NoCurrentDirectory  "Текущая директория не существует"                *)
(*   NotADirectory       "P: Не является директорией"                      *)
(*   Initialized         "VFS инициализирована по умолчанию"               *)
(*   AttributeError      the exception of None.get(...), which leaves the  *)
(*                       command without a result                          *)

File == [type |-> "file"]
NoneNode == [type |-> "None"]
Entry(name, node) == [name |-> name, node |-> node]

DefaultRoot ==
  Directory(<<
    Entry("home", Directory(<<
      Entry("user", Directory(<<
        Entry("documents", Directory(<<Entry("readme.txt", File)>>)),
        Entry("file1.txt", File)>>))>>)),
    Entry("bin", Directory(<<Entry("ls", File), Entry("cd", File)>>)),
    Entry("etc", Directory(<<Entry("config.json", File)>>))>>)

create_default(V) == [root |-> DefaultRoot, current_path |-> "/"]

\* path.split('/')
RECURSIVE split(_)
split(path) ==
  IF Contains(path, {"/"})
  THEN LET i == CHOOSE k \in 1..Len(path) :
                  /\ SubSeq(path, k, k) = "/"
                  /\ \A j \in 1..(k - 1) : SubSeq(path, j, j) # "/"
       IN  <<SubSeq(path, 1, i - 1)>> \o split(SubSeq(path, i + 1, Len(path)))
  ELSE <<path>>

\* [part for part in path.split('/') if part]
path_parts(path) == SelectSeq(split(path), LAMBDA part : part # "")

\* '/' + '/'.join(path_parts) if path_parts else '/'
join_path(parts) == IF parts = <<>> THEN "/" ELSE "/" \o Join(parts, "/")

startswith_slash(path) == Len(path) > 0 /\ SubSeq(path, 1, 1) = "/"

\* node.get("children", {})
children_of(node) == IF node.type = "directory" THEN node.children ELSE <<>>

has_child(node, name) ==
  \E i \in 1..Len(children_of(node)) : children_of(node)[i].name = name

get_child(node, name) ==
  children_of(node)[CHOOSE i \in 1..Len(children_of(node)) :
                      children_of(node)[i].name = name].node

RECURSIVE walk(_, _)
walk(current_dir, parts) ==
  IF parts = <<>> THEN current_dir
  ELSE IF has_child(current_dir, Head(parts))
  THEN walk(get_child(current_dir, Head(parts)), Tail(parts))
  ELSE NoneNode

get_current_directory(V) == walk(V.root, path_parts(V.current_path))

NoShellError == [kind |-> "", arg |-> ""]

Resolved(V, dir) ==
  [raised |-> FALSE, dir |-> dir, error |-> NoShellError, vfs |-> V]

NotResolved(V, kind, arg) ==
  [raised |-> FALSE, dir |-> NoneNode, error |-> [kind |-> kind, arg |-> arg],
   vfs |-> V]

AttributeError(V) ==
  [raised |-> TRUE, dir |-> NoneNode,
   error |-> [kind |-> "AttributeError", arg |-> ""], vfs |-> V]

\* the '..' branch of resolve_path: self.current_path becomes its parent
parent(V) ==
  IF V.current_path # "/"
  THEN LET parts == path_parts(V.current_path)
       IN  [V EXCEPT !.current_path =
                       join_path(SubSeq(parts, 1, Len(parts) - 1))]
  ELSE V

\* the for loop of resolve_path
RECURSIVE resolve_loop(_, _, _, _)
resolve_loop(V, current_dir, parts, path) ==
  IF parts = <<>> THEN Resolved(V, current_dir)
  ELSE IF Head(parts) = ".."
  THEN resolve_loop(parent(V), get_current_directory(parent(V)),
                    Tail(parts), path)
  ELSE IF Head(parts) = "."
  THEN resolve_loop(V, current_dir, Tail(parts), path)
  ELSE IF current_dir.type = "None" THEN AttributeError(V)
  ELSE IF has_child(current_dir, Head(parts))
  THEN resolve_loop(V, get_child(current_dir, Head(parts)), Tail(parts), path)
  ELSE NotResolved(V, "PathNotFound", path)

resolve_path(V, path) ==
  IF startswith_slash(path)
  THEN resolve_loop(V, V.root, path_parts(path), path)
  ELSE IF get_current_directory(V).type = "None"
  THEN NotResolved(V, "NoCurrentDirectory", "")
  ELSE resolve_loop(V, get_current_directory(V), path_parts(path), path)

\* what a command leaves: the VFS and (success, output), or the exception
Returned(V, success, kind, arg) ==
  [vfs |-> V, raised |-> FALSE, success |-> success, kind |-> kind, arg |-> arg]

Raised(V, kind) ==
  [vfs |-> V, raised |-> TRUE, success |-> FALSE, kind |-> kind, arg |-> ""]

\* f"{item_type} {name}" for the children, joined by "\n"
listing(node) ==
  Join([i \in 1..Len(children_of(node)) |->
          (IF children_of(node)[i].node.type = "directory" THEN "d" ELSE "-")
            \o " " \o children_of(node)[i].name], "\n")

cmd_ls(V, args) ==
  LET target_path == IF args # <<>> THEN args[1] ELSE V.current_path
      r == resolve_path(V, target_path)
  IN  IF r.raised THEN Raised(r.vfs, r.error.kind)
      ELSE IF r.error.kind # "" THEN Returned(r.vfs, FALSE, r.error.kind, r.error.arg)
      ELSE IF r.dir.type = "None" THEN Raised(r.vfs, "AttributeError")
      ELSE IF r.dir.type # "directory"
      THEN Returned(r.vfs, FALSE, "NotADirectory", target_path)
      ELSE IF children_of(r.dir) = <<>> THEN Returned(r.vfs, TRUE, "", "")
      ELSE Returned(r.vfs, TRUE, "listing", listing(r.dir))

\* the assignments of cmd_cd to self.vfs.current_path after the checks
changed_path(V, target_path) ==
  LET joined == IF startswith_slash(target_path) THEN target_path
                ELSE IF V.current_path = "/" THEN "/" \o target_path
                ELSE V.current_path \o "/" \o target_path
  IN  [V EXCEPT !.current_path = join_path(path_parts(joined))]

cmd_cd(V, args) ==
  IF args = <<>> THEN Returned([V EXCEPT !.current_path = "/"], TRUE, "", "")
  ELSE LET target_path == args[1]
           r == resolve_path(V, target_path)
       IN  IF r.raised THEN Raised(r.vfs, r.error.kind)
           ELSE IF r.error.kind # ""
           THEN Returned(r.vfs, FALSE, r.error.kind, r.error.arg)
           ELSE IF r.dir.type = "None" THEN Raised(r.vfs, "AttributeError")
           ELSE IF r.dir.type # "directory"
           THEN Returned(r.vfs, FALSE, "NotADirectory", target_path)
           ELSE Returned(changed_path(r.vfs, target_path), TRUE, "", "")

cmd_vfs_init(V, args) == Returned(create_default(V), TRUE, "Initialized", "")

(* The commands given to the shell: ls and cd with no argument or with a   *)
(* path of at most MaxPathParts parts, absolute or relative, and vfs-init. *)
(*   pc = "shell"   the emulator waits for a command                       *)

MaxPathParts == 2

PathParts == {"..", ".", "home", "bin", "ls"}

PathExtras ==
  {"/", "user", "nosuch", "../nosuch", "/nosuch", "/home//user/",
   "home/user/documents", "/home/user/file1.txt"}

Paths ==
  LET relative == { Join(q, "/") : q \in SeqsUpTo(PathParts, MaxPathParts) \ {<<>>} }
  IN  relative \cup {"/" \o p : p \in relative} \cup PathExtras

Arguments == {<<>>} \cup {<<p>> : p \in Paths}

\* ShellEmulator.__init__ with no VFS file and no startup script
ShellInit ==
  /\ text = ""
  /\ lexer = LexerInit
  /\ current_token = NoToken
  /\ constants = <<>>
  /\ config = <<>>
  /\ pc = "shell"
  /\ err = NoError
  /\ output = NoOutput
  /\ process = Running
  /\ vfs = create_default(VFSInit)
  /\ reply = NoReply

\* execute_single_command has called the command: its effect on the VFS
\* and what it gave
Executed(command, args, r) ==
  /\ vfs' = r.vfs
  /\ reply' = [command |-> command, args |-> args, raised |-> r.raised,
               success |-> r.success, kind |-> r.kind, arg |-> r.arg]
  /\ UNCHANGED <<process, text, lexer, current_token, constants, config, pc,
                 err, output>>

ExecuteLs ==
  /\ pc = "shell"
  /\ \E args \in Arguments : Executed("ls", args, cmd_ls(vfs, args))

ExecuteCd ==
  /\ pc = "shell"
  /\ \E args \in Arguments : Executed("cd", args, cmd_cd(vfs, args))

ExecuteVfsInit ==
  /\ pc = "shell"
  /\ Executed("vfs-init", <<>>, cmd_vfs_init(vfs, <<>>))

ShellNext == ExecuteLs \/ ExecuteCd \/ ExecuteVfsInit

ShellSpec == ShellInit /\ [][ShellNext]_vars

----------------------------------------------------------------------------
(* What the texts of the families denote, computed on how they are         *)
(* written and not by the Lexer and the Parser.                            *)

Terminal == pc \in {"done", "raised"}

IsPrefix(p, s) == Len(p) <= Len(s) /\ SubSeq(s, 1, Len(p)) = p

Rest(s, p) == SubSeq(s, Len(p) + 1, Len(s))

\* the items a text of the first family is made of (no item is a prefix of
\* another, so there is one decomposition)
RECURSIVE InItemFamily(_)
InItemFamily(s) ==
  \/ s = ""
  \/ \E it \in Items : IsPrefix(it.src, s) /\ InItemFamily(Rest(s, it.src))

RECURSIVE ItemsOf(_)
ItemsOf(s) ==
  IF s = "" THEN <<>>
  ELSE LET it == CHOOSE it \in Items : IsPrefix(it.src, s)
       IN  <<it>> \o ItemsOf(Rest(s, it.src))

Bound(decls, name) == \E i \in 1..Len(decls) : decls[i].name = name

\* the value of the last of decls that has this name
LastValue(decls, name) ==
  LET i == CHOOSE i \in 1..Len(decls) :
             /\ decls[i].name = name
             /\ \A j \in (i + 1)..Len(decls) : decls[j].name # name
  IN  decls[i].value

\* The items read in order.  decls and entries are the [name, value] pairs
\* of the declarations and entries evaluated so far; status is "ok", or the
\* error that ends the run: "UnknownConstant" at a reference to a name no
\* earlier declaration has, "UnexpectedToken" at a ';' after a declaration.
RECURSIVE RefRun(_, _, _)
RefRun(items, decls, entries) ==
  IF items = <<>>
  THEN [status |-> "ok", arg |-> "", decls |-> decls, entries |-> entries]
  ELSE LET it == Head(items)
           v  == it.val.n + (IF it.val.ref = "" THEN 0
                             ELSE LastValue(decls, it.val.ref))
           nv == [name |-> it.name, value |-> v]
       IN  IF it.val.ref # "" /\ ~Bound(decls, it.val.ref)
           THEN [status |-> "UnknownConstant", arg |-> it.val.ref,
                 decls |-> decls, entries |-> entries]
           ELSE IF it.kind = "var"
           THEN IF it.semi
                THEN [status |-> "UnexpectedToken", arg |-> IDENTIFIER,
                      decls |-> Append(decls, nv), entries |-> entries]
                ELSE RefRun(Tail(items), Append(decls, nv), entries)
           ELSE RefRun(Tail(items), decls, Append(entries, nv))

Ref == RefRun(ItemsOf(text), <<>>, <<>>)

NoDuplicateKeys(d) ==
  \A i, j \in 1..Len(d) : d[i].key = d[j].key => i = j

----------------------------------------------------------------------------
(* C1, C2, C7, C9, C10: constants and entries *)

C1Middles == {"", "b; 5 ", "var y 5 ", "var y @(+ x 2) ", "b; @(+ x 2) "}

C7_UnknownConstant ==
  (InItemFamily(text) /\ Terminal /\ Ref.status = "UnknownConstant")
    => /\ pc = "raised"
       /\ err.kind = "UnknownConstant"
       /\ err.arg = Ref.arg

C7_Witness ==
  /\ text = "a; @(+ x 2) " \o "var x 5 "
  /\ pc = "raised"
  /\ err.kind = "UnknownConstant"
  /\ err.arg = "x"
  /\ config = <<>>

\* C9: declaring a name again is no error; each declaration is evaluated at
\* once with the constants of that moment, a name has one binding, its value
\* is that of its last declaration, and the entries evaluated after it use
\* that value.
C9_LastVarWins ==
  (InItemFamily(text) /\ Terminal)
    => /\ NoDuplicateKeys(constants)
       /\ Len(constants) <= Len(Ref.decls)
       /\ \A i \in 1..Len(Ref.decls) :
            /\ DictHas(constants, Ref.decls[i].name)
            /\ DictGet(constants, Ref.decls[i].name)
                 = IntV(LastValue(Ref.decls, Ref.decls[i].name))
       /\ Ref.status = "ok"
            => /\ pc = "done"
               /\ \A i \in 1..Len(Ref.entries) :
                    DictGet(config, Ref.entries[i].name)
                      = IntV(LastValue(Ref.entries, Ref.entries[i].name))

C9_Witness ==
  /\ text = "var x 5 " \o "var x @(+ x 2) " \o "a; @(+ x 2) "
  /\ pc = "done"
  /\ constants = <<[key |-> "x", value |-> IntV(7)]>>
  /\ DictGet(config, "a") = IntV(9)

\* C10: config never holds a key twice, and after a successful parse of a
\* text of declarations and entries its keys are the entry names of the
\* text, each with the value of the last entry of that name.
C10_LastEntryWins ==
  /\ NoDuplicateKeys(config)
  /\ (InItemFamily(text) /\ pc = "done")
       => /\ Ref.status = "ok"
          /\ {config[i].key : i \in 1..Len(config)}
               = {Ref.entries[i].name : i \in 1..Len(Ref.entries)}
          /\ \A i \in 1..Len(config) :
               config[i].value = IntV(LastValue(Ref.entries, config[i].key))

C10_Witness ==
  /\ text = "a; 5 " \o "var x 5 " \o "a; @(+ x 2) "
  /\ pc = "done"
  /\ config = <<[key |-> "a", value |-> IntV(7)]>>

----------------------------------------------------------------------------
(* C3: ord *)

\* the code point of the first character of the string literals of OrdArgs
FirstCode(arg) == CASE arg = "\"A\"" -> 65 [] arg = "\"ab\"" -> 97

\* C3 as stated: `@(ord "A")`, the operand not in parentheses, is parsed
\* successfully and evaluates to the integer 65.
C3_AsStated ==
  (text = OrdText(" ", "\"A\"", "") /\ Terminal)
    => (pc = "done" /\ config = <<[key |-> "a", value |-> IntV(65)]>>)

\* C3 amended: `@(ord("A"))`, the operand in parentheses, is parsed
\* successfully and evaluates to the code point of the first character of
\* the non-empty string literal (65 for "A"); with no `(` after ord the
\* parse fails with an unexpected-token error (LPAREN was expected).
C3_OrdNeedsParentheses ==
  \A arg \in {"\"A\"", "\"ab\""} :
    /\ (text = OrdText("(", arg, ")") /\ Terminal)
         => (pc = "done"
               /\ config = <<[key |-> "a", value |-> IntV(FirstCode(arg))]>>)
    /\ \A c \in {")", ""} :
         (text = OrdText(" ", arg, c) /\ Terminal)
           => /\ pc = "raised"
              /\ err.kind = "UnexpectedToken"
              /\ err.arg = LPAREN

C3_Witness ==
  /\ text = OrdText("(", "\"A\"", ")")
  /\ pc = "done"
  /\ config = <<[key |-> "a", value |-> IntV(65)]>>

----------------------------------------------------------------------------
(* C4: numbers with a decimal point *)

\* C4: `2.5` is one Number token of Float kind, so the entries `a; 2.5` and
\* `a; @(* 2.5 4)` are parsed successfully, with the values 2.5 and 10.0.
C4_DecimalPoint ==
  /\ (text = "a; 2.5 " /\ Terminal)
       => (pc = "done" /\ config = <<[key |-> "a", value |-> FloatV(25, 1)]>>)
  /\ (text = "a; @(* 2.5 4) " /\ Terminal)
       => (pc = "done" /\ config = <<[key |-> "a", value |-> FloatV(10, 0)]>>)

----------------------------------------------------------------------------
(* C5: binary operators *)

\* the words of s, which are separated by single spaces
RECURSIVE Words(_)
Words(s) ==
  IF s = "" THEN <<>>
  ELSE LET i == IndexOf(s, {" "}, 1)
       IN  IF i = 0 THEN <<s>>
           ELSE <<SubSeq(s, 1, i - 1)>> \o Words(SubSeq(s, i + 1, Len(s)))

OperandValue(tok) == CASE tok = "10" -> 10 [] tok = "3" -> 3 [] tok = "-3" -> -3

IntOp(op, left, right) ==
  CASE op = "+" -> left + right
    [] op = "-" -> left - right
    [] op = "*" -> left * right

\* Prefix notation read from the last word to the first with a stack: an
\* operand is pushed, an operator replaces the two topmost values, the
\* left operand being the topmost, by its result.  The words are one
\* expression exactly when no operator finds fewer than two values and one
\* value is left.
RECURSIVE RefPrefix(_, _, _)
RefPrefix(toks, i, stack) ==
  IF i = 0 THEN [ok |-> TRUE, stack |-> stack]
  ELSE IF toks[i] \in ExprOperators
  THEN IF Len(stack) < 2 THEN [ok |-> FALSE, stack |-> stack]
       ELSE RefPrefix(toks, i - 1,
                      <<IntOp(toks[i], stack[1], stack[2])>>
                        \o Tail(Tail(stack)))
  ELSE RefPrefix(toks, i - 1, <<OperandValue(toks[i])>> \o stack)

InExprFamily(s) == IsPrefix("a;@(", s)

ExprWords == Words(SubSeq(text, 5, Len(text) - 1))

\* C5: for an entry `a;@( words )` over the operators + - * and integer
\* operands, the parse succeeds exactly when the words are one prefix
\* expression in which every operator has exactly two operands, the value
\* of a is then left op right with the left operand taken first, and in
\* every other case the parse fails with a syntax error.
C5_BinaryOperators ==
  (InExprFamily(text) /\ Terminal)
    => LET r    == RefPrefix(ExprWords, Len(ExprWords), <<>>)
           good == r.ok /\ Len(r.stack) = 1
       IN  /\ pc = "done" <=> good
           /\ good => config = <<[key |-> "a", value |-> IntV(r.stack[1])]>>
           /\ ~good => (pc = "raised" /\ err.exc = "SyntaxError")

C5_Witness ==
  /\ text = ExprText(<<"-", "10", "3">>)
  /\ pc = "done"
  /\ config = <<[key |-> "a", value |-> IntV(7)]>>

----------------------------------------------------------------------------
(* C6: arrays *)

ElemValue(e) ==
  CASE e = "1" -> IntV(1)
    [] e = "2" -> IntV(2)
    [] e = "3" -> IntV(3)
    [] e = "\"s\"" -> StrV("s")
    [] e = "[]" -> ArrV(<<>>)
    [] e = "[1; [2]]" -> ArrV(<<IntV(1), ArrV(<<IntV(2)>>)>>)

\* C6: the entry `name; [v1; ...; vn]` is parsed successfully and config
\* holds, under the key name alone, the array of the n values in the order
\* written (n = 0 for `[]`; an element may be an array).
C6_ArrayElements ==
  (IsPrefix("name; [", text) /\ Terminal)
    => \A q \in SeqsUpTo(ArrayElems, MaxArrayLen) :
         text = ArrayText(q)
           => /\ pc = "done"
              /\ Len(config) = 1
              /\ config[1].key = "name"
              /\ config[1].value.t = "arr"
              /\ Len(config[1].value.v) = Len(q)
              /\ \A i \in 1..Len(q) : config[1].value.v[i] = ElemValue(q[i])

C6_Witness ==
  /\ text = ArrayText(<<"1", "2", "3">>)
  /\ pc = "done"
  /\ config = <<[key |-> "name",
                 value |-> ArrV(<<IntV(1), IntV(2), IntV(3)>>)]>>

----------------------------------------------------------------------------
(* C8: unterminated strings *)

RECURSIVE CountNewlines(_)
CountNewlines(s) ==
  IF s = "" THEN 0
  ELSE (IF SubSeq(s, 1, 1) = "\n" THEN 1 ELSE 0)
         + CountNewlines(SubSeq(s, 2, Len(s)))

\* the number of characters of s after its last newline
RECURSIVE TailLength(_)
TailLength(s) ==
  IF s = "" \/ SubSeq(s, Len(s), Len(s)) = "\n" THEN 0
  ELSE 1 + TailLength(SubSeq(s, 1, Len(s) - 1))

\* C8: when the text ends inside a string literal whose opening quote
\* follows a well-formed beginning, the parse fails with the
\* unterminated-string error, and the line and column it reports are at or
\* after those of the opening quote.
C8_UnterminatedString ==
  \A p \in StringPrefixes : \A b \in OpenBodies :
    (text = OpenStringText(p, b) /\ Terminal)
      => /\ pc = "raised"
         /\ err.kind = "UnterminatedString"
         /\ err.located
         /\ \/ err.line > 1 + CountNewlines(p)
            \/ /\ err.line = 1 + CountNewlines(p)
               /\ err.col >= 1 + TailLength(p)

C8_Witness ==
  /\ text = OpenStringText("a; ", "abc")
  /\ pc = "raised"
  /\ err.kind = "UnterminatedString"
  /\ err.line = 1
  /\ err.col = 8

----------------------------------------------------------------------------
(* C11: a token of another kind than the one wanted *)

\* C11: when the parser wants a token of one kind and the current token is
\* of another, the parse fails there with an unexpected-token error naming
\* both kinds (they differ), convert_to_json returns the syntax-error
\* message and config holds only the entries before that place; in
\* particular `name 5` fails (SEMICOLON wanted, NUMBER found).  Where a
\* value is wanted and the token starts none, the parse fails as well.
C11_UnexpectedToken ==
  /\ err.kind = "UnexpectedToken"
       => /\ pc = "raised"
          /\ err.arg # err.got
          /\ output.rendering = "syntax_error"
  /\ \A c \in MalformedCases :
       (text = c.src /\ Terminal)
         => /\ pc = "raised"
            /\ err.kind = "UnexpectedToken"
            /\ err.arg = c.expected
            /\ err.got = c.got
            /\ Len(config) = c.before
            /\ output.rendering = "syntax_error"
  /\ \A c \in NoValueCases :
       (text = c.src /\ Terminal)
         => /\ pc = "raised"
            /\ err.kind = "ExpectedValue"
            /\ err.arg = c.got
            /\ Len(config) = c.before

C11_Witness ==
  /\ text = "name 5"
  /\ pc = "raised"
  /\ err.kind = "UnexpectedToken"
  /\ err.arg = SEMICOLON
  /\ err.got = NUMBER
  /\ config = <<>>

----------------------------------------------------------------------------
(* C12: what convert_to_json returns *)

\* some texts with the string convert_to_json returns for them
C12Rendered ==
  { [src |-> "", returned |-> "{}"],
    [src |-> "a; 5 ", returned |-> "{\n  \"a\": 5\n}"],
    [src |-> "a; 5 b; 5 ", returned |-> "{\n  \"a\": 5,\n  \"b\": 5\n}"],
    [src |-> "var x 5 a; @(+ x 2) ", returned |-> "{\n  \"a\": 7\n}"],
    [src |-> "name; [1; 2; 3] ",
     returned |-> "{\n  \"name\": [\n    1,\n    2,\n    3\n  ]\n}"],
    [src |-> "name; [[]; \"s\"] ",
     returned |-> "{\n  \"name\": [\n    [],\n    \"s\"\n  ]\n}"],
    [src |-> "a; 25e-1 ", returned |-> "{\n  \"a\": 2.5\n}"],
    [src |-> "a; @(* 25e-1 4) ", returned |-> "{\n  \"a\": 10.0\n}"] }

\* C12: convert_to_json returns once, when the parse ends.  After an error
\* of any kind it returns an error message about that error, also when
\* entries were parsed before the error; it returns a JSON text only when
\* the whole text was parsed, and the text then renders every entry of the
\* Document.
C12_ErrorIsFatal ==
  /\ output = NoOutput <=> ~Terminal
  /\ pc = "raised"
       => /\ output.rendering \in {"syntax_error", "error"}
          /\ output.e = err
          /\ output.rendering = "syntax_error" <=> err.exc = "SyntaxError"
  /\ pc = "done"
       => /\ output.rendering = "json"
          /\ current_token.type = EOF
          /\ lexer.pos = Len(text)
          /\ \A i \in 1..Len(config) :
               \E j \in 1..Len(output.text) :
                 SubSeq(output.text, j, j + Len(config[i].key) + 3)
                   = "\"" \o config[i].key \o "\": "
  /\ \A c \in C12Rendered :
       (text = c.src /\ Terminal)
         => (output.rendering = "json" /\ output.text = c.returned)
  /\ (InItemFamily(text) /\ Terminal)
       => (output.rendering = "json" <=> Ref.status = "ok")

C12_Witness ==
  /\ text = "a; 5 b 6"
  /\ pc = "raised"
  /\ config = <<[key |-> "a", value |-> IntV(5)]>>
  /\ output.rendering = "syntax_error"
  /\ output.e.kind = "UnexpectedToken"

----------------------------------------------------------------------------
(* C13: documents of literals *)

InLiteralFamily(str) ==
  Len(str) >= 2 /\ SubSeq(str, 1, 1) \in LiteralNames /\ SubSeq(str, 2, 2) = ";"

\* the Document the entries of q declare
Declared13(q) ==
  [i \in 1..Len(q) |-> [key |-> q[i].name, value |-> q[i].form.value]]

\* C13: a text of entries with distinct names whose values are literal
\* numbers, literal strings and arrays of such literals is parsed
\* successfully, and config has the declared names in the order written,
\* each with the value written (same nesting, order, kinds and values).
C13_LiteralRoundTrip ==
  (InLiteralFamily(text) /\ Terminal)
    => \A q \in LiteralSeqs :
         text = LiteralText(q) => (pc = "done" /\ config = Declared13(q))

----------------------------------------------------------------------------
(* C14: the minus sign *)

\* where the next token starts: the first character that is no whitespace
TokenStart == skip_whitespace(lexer).pos

\* C14: when the next token starts with `-`, next_token returns a Number
\* (negative or zero, longer than the `-`) if the character right after
\* the `-` is a digit, and otherwise (whitespace, end of text, any other
\* character) the Minus token, having consumed the `-` alone.
C14_MinusOrNumber ==
  (pc = "lex" /\ CharAt(TokenStart) = "-")
    => LET r == next_token(lexer)
       IN  /\ r.ok
           /\ IF CharAt(TokenStart + 1) \in Digits
              THEN /\ r.token.type = NUMBER
                   /\ r.token.value.t \in {"int", "float"}
                   /\ AsFloat(r.token.value)[1] <= 0
                   /\ r.lexer.pos > TokenStart + 1
              ELSE /\ r.token = Token(MINUS, StrV("-"))
                   /\ r.lexer.pos = TokenStart + 1

C14_Witness ==
  /\ text = "-.5"
  /\ pc = "lex"
  /\ current_token = Token(MINUS, StrV("-"))
  /\ lexer.pos = 1

----------------------------------------------------------------------------
(* C15: identifiers and unknown characters *)

AsciiWordChars == Lower \cup Upper \cup Digits \cup {"_"}

\* the characters a token may start with, as C15 lists them
TokenStartChars == {"\""} \cup AsciiWordChars \cup Symbols

\* C15: an Identifier, Var or Ord token is made of ASCII letters, ASCII
\* digits and `_` only and does not start with a digit; and when the next
\* character that is no whitespace is not one a token may start with,
\* next_token fails with the unknown-character error, which reports that
\* character and its line and column.
C15_AsciiIdentifiers ==
  /\ current_token.type \in {IDENTIFIER, VAR, ORD}
       => LET name == current_token.value.v
          IN  /\ name # ""
              /\ SubSeq(name, 1, 1) \notin Digits
              /\ \A i \in 1..Len(name) : SubSeq(name, i, i) \in AsciiWordChars
  /\ (pc = "lex" /\ TokenStart < Len(text)
        /\ CharAt(TokenStart) \notin TokenStartChars)
       => LET r == next_token(lexer)
          IN  /\ ~r.ok
              /\ r.err.kind = "UnknownCharacter"
              /\ r.err.arg = CharAt(TokenStart)
              /\ r.err.line = skip_whitespace(lexer).line
              /\ r.err.col = skip_whitespace(lexer).col

----------------------------------------------------------------------------
(* C16: backslashes in string literals *)

\* The position of the quote that closes a string literal whose body
\* starts at p, or -1: the first `"` met when a backslash makes the
\* character after it pass unread.
RECURSIVE Closing(_)
Closing(p) ==
  IF p >= Len(text) THEN -1
  ELSE IF CharAt(p) = "\"" THEN p
  ELSE IF CharAt(p) = "\\" THEN Closing(p + 2)
  ELSE Closing(p + 1)

\* texts that start with a string literal, and the value of its token
C16Cases ==
  { [src |-> "\"a\\\"b\" 5", value |-> "a\\\"b"],
    [src |-> "\"\\\\\" a", value |-> "\\\\"],
    [src |-> "\"\\n\\t\" -", value |-> "\\n\\t"],
    [src |-> "\"a\nb\\\n\"\n-5", value |-> "a\nb\\\n"],
    [src |-> "\"\\\\\\\"\" ", value |-> "\\\\\\\""] }

\* C16: when the next token starts with `"`, a backslash in the literal
\* makes the character after it pass without closing the string, a `"`
\* included; next_token returns a String token exactly when an unescaped
\* `"` follows, the token's value is the text between the two quotes as
\* written, backslashes and the characters after them kept and nothing
\* decoded, and the lexer is left right after the closing quote.
C16_RawString ==
  /\ (pc = "lex" /\ CharAt(TokenStart) = "\"")
       => LET r == next_token(lexer)
              c == Closing(TokenStart + 1)
          IN  /\ r.ok <=> c >= 0
              /\ r.ok
                   => /\ r.token
                           = Token(STRING_T, StrV(SubSeq(text, TokenStart + 2, c)))
                      /\ r.lexer.pos = c + 1
              /\ ~r.ok => r.err.kind = "UnterminatedString"
  /\ \A c \in C16Cases :
       (text = c.src /\ current_token.type = STRING_T)
         => /\ current_token.value = StrV(c.value)
            /\ lexer.pos = Len(c.value) + 2

C16_Witness ==
  /\ text = "\"a\\\"b\" 5"
  /\ pc = "lex"
  /\ current_token = Token(STRING_T, StrV("a\\\"b"))
  /\ Len(current_token.value.v) = 4
  /\ lexer.pos = 6

----------------------------------------------------------------------------
(* C17: the argument of ord *)

\* the code point of the first character of a string literal that is not
\* empty, -1 for any other literal
OrdCode(lit) ==
  CASE lit = "\"A\"" -> 65
    [] lit = "\"ab\"" -> 97
    [] lit = "\"sa\"" -> 115
    [] OTHER -> -1

\* Texts with one use of ord in parentheses: on a literal, on a constant x
\* of each type, and on the sum of two numbers.  key is the entry, code
\* what OrdCode gives for the literal.
OrdCases ==
  { [src |-> OrdText("(", arg, ")"), key |-> "a", code |-> OrdCode(arg)] :
      arg \in OrdArgs }
    \cup { [src |-> ConstantText(d, "ord(x)"), key |-> "c",
            code |-> OrdCode(d)] : d \in ConstantValues }
    \cup { [src |-> ConstantText("5", "ord(+ x x)"), key |-> "c",
            code |-> -1] }

\* C17: `ord ( expr )` evaluates expr; when the result is a string that is
\* not empty the value is the code point of its first character, and for
\* an empty string, a number or an array the parse fails with the
\* invalid-argument error and no entry is made.
C17_OrdArgument ==
  /\ err.kind = "InvalidArgument" => (pc = "raised" /\ err.located)
  /\ \A c \in OrdCases :
       (text = c.src /\ Terminal)
         => IF c.code >= 0
            THEN /\ pc = "done"
                 /\ config = <<[key |-> c.key, value |-> IntV(c.code)]>>
            ELSE /\ pc = "raised"
                 /\ err.kind = "InvalidArgument"
                 /\ config = <<>>

C17_Witness ==
  /\ text = ConstantText("[1]", "ord(x)")
  /\ pc = "raised"
  /\ err.kind = "InvalidArgument"
  /\ constants = <<[key |-> "x", value |-> ArrV(<<IntV(1)>>)]>>

----------------------------------------------------------------------------
(* C18: operands that are strings *)

\* C18: `@(op left right)` with op one of + - * has a value only when both
\* operands are numbers (integer or float); when one of them or both are
\* strings the parse fails with a type-mismatch error.
C18_StringOperands ==
  \A op \in ExprOperators : \A l \in Operands : \A r \in Operands :
    (text = OperandText(op, l.src, r.src) /\ Terminal)
      => IF l.kind = "number" /\ r.kind = "number"
         THEN pc = "done" /\ IsNum(DictGet(config, "t"))
         ELSE pc = "raised" /\ err.kind = "TypeMismatch"

----------------------------------------------------------------------------
(* C19: the values of constant expressions *)

Scalar(x) == x.t \in {"int", "float", "str"}

\* C19: the value of an entry written `@( ... )` is an integer, a float or
\* a string and never an array, also when the expression refers to a
\* constant that was declared with an array.
C19_ScalarExpressions ==
  /\ \A d \in ConstantValues : \A e \in ConstantExprs :
       (text = ConstantText(d, e) /\ pc = "done")
         => Scalar(DictGet(config, "c"))
  /\ (InExprFamily(text) /\ pc = "done") => Scalar(DictGet(config, "a"))

----------------------------------------------------------------------------
(* C20: the position of errors *)

\* C20: every error that ends a parse, of whatever kind, carries the line
\* and the column at which it was detected, and so does the message
\* convert_to_json returns.
C20_ErrorsLocated ==
  pc = "raised"
    => /\ err.located
       /\ err.line >= 1
       /\ err.col >= 1
       /\ output.rendering = "syntax_error"

----------------------------------------------------------------------------
(* C21: the source cursor *)

Min(a, b) == IF a <= b THEN a ELSE b

\* the characters of the text before the position of cursor L
Consumed(L) == SubSeq(text, 1, Min(L.pos, Len(text)))

\* line and col of cursor L are those of the end of the text it consumed
CursorCounts(L) ==
  /\ L.line = 1 + CountNewlines(Consumed(L))
  /\ L.col = 1 + TailLength(Consumed(L))

\* C21: the position of the lexer never decreases, its line is 1 plus the
\* number of newline characters consumed and its col is 1 plus the number
\* of characters consumed since the last consumed newline: before and
\* after every call of next_token, whether it returns or raises.
C21_CursorCounts ==
  /\ CursorCounts(lexer)
  /\ pc = "lex"
       => /\ next_token(lexer).lexer.pos >= lexer.pos
          /\ CursorCounts(next_token(lexer).lexer)

----------------------------------------------------------------------------
(* C22: termination *)

\* the statement the call is at can be executed: the conditions of the
\* steps of convert_to_json, which leave no token type out
CanStep ==
  \/ pc = "init"
  \/ /\ pc = "parse"
     /\ \/ current_token.type = VAR
        \/ current_token.type \notin {EOF, VAR}
        \/ current_token.type = EOF

\* C22: the parse of every text ends, with config returned or with an
\* exception: until then a step can be taken, every iteration of the loop
\* of Parser.parse that does not end the call moves the lexer forward, and
\* the position has a limit given by the text (the loops within an
\* iteration, of parse_array and of the lexer, are evaluated to their end
\* in the step).
C22_Terminates ==
  /\ [](Terminal \/ CanStep)
  /\ [](lexer.pos <= Len(text) + 1)
  /\ [][pc = "init" \/ pc' \in {"done", "raised"}
                    \/ lexer'.pos > lexer.pos]_vars

C22_Witness ==
  /\ text = "var x 5 " \o "a; @(+ x 2) " \o "a; 5 "
  /\ pc = "done"
  /\ lexer.pos = Len(text)
  /\ process.exited

----------------------------------------------------------------------------
(* C23: the command-line driver *)

\* C23: when the parse fails the driver writes an error message and the
\* process exits with a non-zero status; JSON is written to standard
\* output only for a successful parse (and then the status is 0).
C23_DriverExit ==
  process.exited
    => /\ pc = "raised"
            => /\ process.status # 0
               /\ \A i \in 1..Len(process.stdout) :
                    process.stdout[i].rendering # "json"
       /\ pc = "done"
            => /\ process.status = 0
               /\ process.stdout = <<output>>
               /\ output.rendering = "json"

----------------------------------------------------------------------------
(* C24: values are snapshots *)

\* the integers the values of SnapshotFirst and SnapshotSecond denote, the
\* second after the first
FirstInt(v1) == CASE v1 = "1" -> 1 [] v1 = "5" -> 5 [] v1 = "10" -> 10

SecondInt(v1, v2) ==
  CASE v2 = "1" -> 1 [] v2 = "5" -> 5 [] v2 = "@(+ x 1)" -> FirstInt(v1) + 1

\* C24: a value computed from a constant is a snapshot: in
\* `var x v1 var y @(+ x 1) a; @(* x 2) var x v2 b; @(+ x 1) c; @(y)` the
\* constant y and the entry a keep, from the moment they exist to the end,
\* the values computed from v1, and only b, which comes after the second
\* declaration of x, is computed from v2.
C24_Snapshot ==
  \A v1 \in SnapshotFirst, v2 \in SnapshotSecond :
    text = SnapshotText(v1, v2)
      => /\ pc # "raised"
         /\ DictHas(constants, "y")
              => DictGet(constants, "y") = IntV(FirstInt(v1) + 1)
         /\ DictHas(config, "a")
              => DictGet(config, "a") = IntV(FirstInt(v1) * 2)
         /\ DictHas(config, "b")
              => /\ DictGet(config, "b") = IntV(SecondInt(v1, v2) + 1)
                 /\ DictGet(constants, "x") = IntV(SecondInt(v1, v2))
         /\ DictHas(config, "c")
              => DictGet(config, "c") = IntV(FirstInt(v1) + 1)
         /\ pc = "done" => DictKeys(config) = <<"a", "b", "c">>

C24_Witness ==
  /\ text = SnapshotText("1", "5")
  /\ pc = "done"
  /\ constants = <<[key |-> "x", value |-> IntV(5)],
                   [key |-> "y", value |-> IntV(2)]>>
  /\ config = <<[key |-> "a", value |-> IntV(2)],
                [key |-> "b", value |-> IntV(6)],
                [key |-> "c", value |-> IntV(2)]>>

----------------------------------------------------------------------------
(* C25: identifiers are not values *)

\* C25: an identifier where a value is expected (the value of an entry, of
\* a declaration, or an element of an array) ends the parse with the
\* expected-value error naming the IDENTIFIER token, whether or not a
\* constant of that name was declared and whatever follows the identifier;
\* what was parsed before it stays, nothing is added.
C25_IdentifierIsNoValue ==
  \A p \in IdentPrefixes, q \in IdentPlaces, r \in IdentSuffixes :
    (text = p \o q \o r /\ Terminal)
      => /\ pc = "raised"
         /\ err.kind = "ExpectedValue"
         /\ err.arg = IDENTIFIER
         /\ ~DictHas(config, "a")
         /\ ~DictHas(constants, "z")
         /\ DictHas(constants, "x") <=> p = "var x 5 "

C25_Witness ==
  /\ text = "var x 5 " \o "a; [1; x" \o "]"
  /\ pc = "raised"
  /\ err.kind = "ExpectedValue"
  /\ constants = <<[key |-> "x", value |-> IntV(5)]>>
  /\ config = <<>>

----------------------------------------------------------------------------
(* C26: an undeclared constant and what follows it *)

\* C26 as stated: a reference to the undeclared y within `@(`, everything
\* before it well-formed, ends the parse with the unknown-constant error
\* for y whatever follows the identifier, a lexical defect included.
C26_AsStated ==
  \A h \in UndeclaredHeads :
    \A t \in ReadableTails \cup {d.tail : d \in DefectTails} :
      (text = h \o "y" \o t /\ Terminal)
        => /\ pc = "raised"
           /\ err.kind = "UnknownConstant"
           /\ err.arg = "y"

\* C26 amended: the parse ends with the unknown-constant error for y when
\* the text ends after the identifier or the token after it can be read,
\* whatever comes later; when the text after the identifier begins with a
\* lexical defect, that lexical error is the one reported, for the token
\* after the identifier is read before the constant is looked up.
C26_NextTokenFirst ==
  \A h \in UndeclaredHeads :
    /\ \A t \in ReadableTails :
         (text = h \o "y" \o t /\ Terminal)
           => /\ pc = "raised"
              /\ err.kind = "UnknownConstant"
              /\ err.arg = "y"
    /\ \A d \in DefectTails :
         (text = h \o "y" \o d.tail /\ Terminal)
           => /\ pc = "raised"
              /\ err.kind = d.kind

C26_Witness ==
  /\ text = "a; @(+ 1 " \o "y" \o " #)"
  /\ pc = "raised"
  /\ err.kind = "UnknownCharacter"
  /\ err.arg = "#"
  /\ config = <<>>

----------------------------------------------------------------------------
(* C27, C28, C29: the current path of the shell emulator *)

\* C27: ls only reads: whatever its argument, and whether it succeeds or
\* fails, the current path after cmd_ls is the one before it.
C27_LsReadsOnly ==
  pc = "shell"
    => \A args \in Arguments :
         cmd_ls(vfs, args).vfs.current_path = vfs.current_path

\* C28: when cmd_cd fails (it returns False, or does not return), the
\* current path is the one before the command.
C28_FailedCdKeepsPath ==
  pc = "shell"
    => \A args \in Arguments :
         ~cmd_cd(vfs, args).success
           => cmd_cd(vfs, args).vfs.current_path = vfs.current_path

\* C29: from the default VFS, after any sequence of ls, cd and vfs-init,
\* the current path begins with "/" and names a directory of the tree:
\* get_current_directory() is not None.
C29_PathNamesDirectory ==
  pc = "shell"
    => /\ startswith_slash(vfs.current_path)
       /\ get_current_directory(vfs).type = "directory"

====
